---------------------------- MODULE Spec2Model ----------------------------
(***************************************************************************)
(* Enzyme-kinetics notebooks of jupyterlite-myst.                          *)
(*                                                                         *)
(*   content/enzyme_kinetics_simulator.ipynb  ("simulator notebook")       *)
(*       constants -> simulate_absorbance -> absorbance/(epsilon*l)        *)
(*       -> np.polyfit slope per concentration -> curve_fit, and the       *)
(*       cell that writes ./data/simulated_absorbance_data.csv             *)
(*   unnamed/part_001                          ("csv notebook")            *)
(*       load_external_data -> calculate_initial_velocities -> curve_fit   *)
(*   unnamed/part_000                          ("plate notebook")          *)
(*       abs_df -> vmin, vmax of the colour scale -> sns.heatmap           *)
(*                                                                         *)
(* Numbers are exact rationals <<n, d>> (d > 0, lowest terms).  In the     *)
(* pipelines they are the values the Python expressions denote over the    *)
(* reals: the rounding inside LAPACK's least squares and scipy's           *)
(* Levenberg-Marquardt is not modelled.  A direct call of michaelis_menten *)
(* is evaluated in binary floating point, every operation rounded to the   *)
(* nearest value of Precision significant bits, ties to even, as float64   *)
(* does with 53.  A division by zero of numpy/pandas float arithmetic (inf *)
(* or nan, with a RuntimeWarning and no exception) is the absorbing value  *)
(* NonFinite.                                                              *)
(***************************************************************************)
EXTENDS Integers, Sequences, FiniteSets, TLC

(***************************************************************************)
(* Exact rational arithmetic.                                              *)
(***************************************************************************)
Abs(n) == IF n < 0 THEN -n ELSE n

RECURSIVE GCD(_, _)
GCD(a, b) == IF b = 0 THEN a ELSE GCD(b, a % b)

NonFinite == <<0, 0>>

IsFinite(x) == x[2] # 0

\* n/d in lowest terms with a positive denominator; d = 0 is inf/nan.
Rat(n, d) ==
    IF d = 0 THEN NonFinite
    ELSE LET g == GCD(Abs(n), Abs(d))
             s == IF d < 0 THEN -1 ELSE 1
         IN  <<s * (n \div g), s * (d \div g)>>

Num(n) == <<n, 1>>

Zero == Num(0)

RAdd(x, y) ==
    IF ~IsFinite(x) \/ ~IsFinite(y) THEN NonFinite
    ELSE LET g == GCD(x[2], y[2])
         IN  Rat(x[1] * (y[2] \div g) + y[1] * (x[2] \div g), (x[2] \div g) * y[2])

RNeg(x) == IF IsFinite(x) THEN <<-x[1], x[2]>> ELSE NonFinite

RSub(x, y) == RAdd(x, RNeg(y))

RMul(x, y) ==
    IF ~IsFinite(x) \/ ~IsFinite(y) THEN NonFinite
    ELSE LET g1 == GCD(Abs(x[1]), y[2])
             g2 == GCD(Abs(y[1]), x[2])
         IN  Rat((x[1] \div g1) * (y[1] \div g2), (x[2] \div g2) * (y[2] \div g1))

\* numpy true division: x / 0 is inf or nan, never an exception.
RDiv(x, y) ==
    IF ~IsFinite(x) \/ ~IsFinite(y) \/ y[1] = 0 THEN NonFinite
    ELSE RMul(x, Rat(y[2], y[1]))

\* x <= y on finite values (the sign of x - y).
RLe(x, y) == RSub(x, y)[1] <= 0

\* xs[i] + ... + xs[Len(xs)] added to acc, left to right; a sum that is no
\* longer finite stays so.
RECURSIVE SumFrom(_, _, _)
SumFrom(xs, i, acc) ==
    IF IsFinite(acc) /\ i <= Len(xs) THEN SumFrom(xs, i + 1, RAdd(acc, xs[i]))
    ELSE acc

RSum(xs) == SumFrom(xs, 1, Zero)

\* n / d (n >= 0, d > 0) rounded to the nearest integer, ties to even.
NearestEven(n, d) ==
    LET q == n \div d
        r == n % d
    IN  IF 2 * r > d \/ (2 * r = d /\ q % 2 = 1) THEN q + 1 ELSE q

RECURSIVE Pow2(_)
Pow2(k) == IF k = 0 THEN 1 ELSE 2 * Pow2(k - 1)

\* n / d > 0 rounded to p significant bits: the binade is found by doubling
\* or halving until 2^(p-1) <= n / d < 2^p, where the floats are the integers.
RECURSIVE RoundPositive(_, _, _)
RoundPositive(n, d, p) ==
    IF n >= d * Pow2(p) THEN RMul(Num(2), RoundPositive(n, 2 * d, p))
    ELSE IF n < d * Pow2(p - 1) THEN RDiv(RoundPositive(2 * n, d, p), Num(2))
    ELSE Num(NearestEven(n, d))

\* The result of a floating-point operation whose exact value is x, with p
\* significant bits (no overflow, no subnormals); p = 0 is the reals.
Fl(x, p) ==
    IF p = 0 \/ ~IsFinite(x) \/ x[1] = 0 THEN x
    ELSE IF x[1] < 0 THEN RNeg(RoundPositive(-x[1], x[2], p))
    ELSE RoundPositive(x[1], x[2], p)

\* A function over 1..n as a sequence value (a list in memory).
List(f) == <<>> \o f

AllFinite(xs) == \A i \in 1..Len(xs) : IsFinite(xs[i])

(***************************************************************************)
(* Bounds of the model.                                                    *)
(***************************************************************************)
\* np.linspace(0, 10, num): num ranges over 1..MaxPoints.
MaxPoints == 3
\* n_replicates ranges over 1..MaxReplicates.
MaxReplicates == 2
\* Rows of a csv file that was not written by the simulator notebook.
MaxRows == 3
\* Period of the stream of unit deviates behind np.random.normal.
NoisePeriod == 2
\* Arguments of a direct call of michaelis_menten: n/1 and n/2, |n| <= MaxArg.
MaxArg == 5
\* Significant bits of the floating-point format of a direct call (float64
\* has 53).
Precision == 3
\* Direct calls of simulate_absorbance that are recorded.
MaxCalls == 2
\* Wells of a plate (rows of abs_df).
MaxWells == 3

(***************************************************************************)
(* Values the notebooks' constants cells are edited to.  The literals of   *)
(* the source are epsilon = 1000, path_length = 1, V_max = 100, K_m = 50,  *)
(* noise_level = 0.02, substrate concentrations [10, 20, 50, 100, 200].    *)
(***************************************************************************)
\* <<epsilon, path_length>>
OpticsChoices ==
    {<<Num(1000), Num(1)>>, <<Num(500), Num(2)>>, <<Num(0), Num(1)>>, <<Num(1000), Num(0)>>}
\* <<V_max, K_m>>
KineticsChoices == {<<Num(100), Num(50)>>, <<Num(60), Num(10)>>}
NoiseLevelChoices == {Zero, Num(10)}
ConcentrationChoices ==
    { <<Num(10), Num(20), Num(50), Num(100), Num(200)>>,
      <<Num(50)>>, <<Num(0), Num(50)>>, <<Num(10), Num(10)>> }
UnitDeviates == {-1, 1}

VARIABLES
    pc,                        \* the cell executed last
    epsilon, path_length,      \* simulator notebook: globals of the kernel
    V_max, K_m,
    noise_level, n_replicates,
    time, substrate_concentrations,
    df,                        \* simulator notebook: the DataFrame
    initial_velocities,        \* simulator notebook: slopes, or the exception
    popt,                      \* simulator notebook: curve_fit's outcome
    csv,                       \* ./data/simulated_absorbance_data.csv
    epsilon_ext, path_length_ext,   \* csv notebook: globals of the kernel
    df_external,               \* csv notebook: the loaded table
    velocities_ext,            \* csv notebook: calculate_initial_velocities' outcome
    popt_ext,                  \* csv notebook: curve_fit's outcome
    mm_call,                   \* a direct call michaelis_menten(S, V_max, K_m)
    sim_calls,                 \* direct calls of simulate_absorbance, in order
    values,                    \* plate notebook: abs_df['value'].values
    heatmap                    \* plate notebook: vmin, vmax given to sns.heatmap

vars == <<pc, epsilon, path_length, V_max, K_m, noise_level, n_replicates, time,
          substrate_concentrations, df, initial_velocities, popt, csv,
          epsilon_ext, path_length_ext, df_external, velocities_ext, popt_ext,
          mm_call, sim_calls, values, heatmap>>

simVars == <<epsilon, path_length, V_max, K_m, noise_level, n_replicates, time,
             substrate_concentrations>>
extVars == <<epsilon_ext, path_length_ext, df_external, velocities_ext, popt_ext>>
plateVars == <<values, heatmap>>

\* An outcome of a call: its return value, or the exception it raised.
Ok(v) == [status |-> "ok", value |-> v]
Raised(e) == [status |-> e, value |-> <<>>]
Unset == [status |-> "unset", value |-> <<>>]

(***************************************************************************)
(* michaelis_menten(S, V_max, K_m) = (V_max * S) / (K_m + S)               *)
(***************************************************************************)
\* Three operations, each rounded to p significant bits (p = 0: not rounded).
michaelis_menten(S, Vm, Km, p) ==
    Fl(RDiv(Fl(RMul(Vm, S), p), Fl(RAdd(Km, S), p)), p)

(***************************************************************************)
(* Simulator notebook: the generator.                                      *)
(***************************************************************************)
\* np.linspace(start, stop, num): num evenly spaced samples, ends included.
linspace(start, stop, num) ==
    List([i \in 1..num |->
             IF num = 1 THEN start
             ELSE RAdd(start, RMul(Rat(i - 1, num - 1), RSub(stop, start)))])

\* np.random.normal(0, scale, size): scale times a unit deviate per sample.
\* The generator's state is the stream of unit deviates and the number of
\* samples already drawn from it; with scale = 0 every sample is 0.
normal(scale, size, stream, drawn) ==
    List([i \in 1..size |->
             RMul(scale, Num(stream[((drawn + i - 1) % Len(stream)) + 1]))])

Scaled(xs, c) == List([i \in 1..Len(xs) |-> RMul(c, xs[i])])

Plus(xs, ys) == List([i \in 1..Len(xs) |-> RAdd(xs[i], ys[i])])

\*   P = michaelis_menten(S, V_max, K_m) * time
\*   A = epsilon * path_length * P
\*   A_noisy = A + np.random.normal(0, noise_level, size=A.shape)
\* V_max and K_m are not parameters of the source function: it reads the
\* kernel's globals, and Vm, Km are the values those hold when it is called.
simulate_absorbance(S, t, eps, l, nl, Vm, Km, stream, drawn) ==
    Plus(Scaled(Scaled(t, michaelis_menten(S, Vm, Km, 0)), RMul(eps, l)),
         normal(nl, Len(t), stream, drawn))

\* for t, absorbance in zip(time, A_noisy): data.append({...})
ReplicateRows(S, replicate, t, A) ==
    List([i \in 1..Len(t) |->
             [Time |-> t[i], Absorbance |-> A[i],
              Substrate_Concentration |-> S, Replicate |-> replicate]])

\* for replicate in range(1, n_replicates + 1): ...
\* range(1, n_replicates): the last replicate lost.
RECURSIVE ReplicateLoop_exclusive(_, _, _, _, _, _, _, _, _, _, _)
ReplicateLoop_exclusive(S, replicate, n, t, eps, l, nl, Vm, Km, stream, drawn) ==
    IF replicate >= n THEN <<>>
    ELSE ReplicateRows(S, replicate, t,
                       simulate_absorbance(S, t, eps, l, nl, Vm, Km, stream, drawn))
         \o ReplicateLoop_exclusive(S, replicate + 1, n, t, eps, l, nl, Vm, Km,
                                    stream, drawn + Len(t))

RECURSIVE ReplicateLoop(_, _, _, _, _, _, _, _, _, _, _)
ReplicateLoop(S, replicate, n, t, eps, l, nl, Vm, Km, stream, drawn) ==
    IF replicate > n THEN <<>>
    ELSE ReplicateRows(S, replicate, t,
                       simulate_absorbance(S, t, eps, l, nl, Vm, Km, stream, drawn))
         \o ReplicateLoop(S, replicate + 1, n, t, eps, l, nl, Vm, Km, stream,
                          drawn + Len(t))

\* save_simulated_absorbance_data: the rows of the DataFrame written to the
\* csv file (for S in substrate_concentrations: ...).
RECURSIVE save_simulated_absorbance_data(_, _, _, _, _, _, _, _, _, _)
save_simulated_absorbance_data(concs, t, eps, l, nl, n, Vm, Km, stream, drawn) ==
    IF concs = <<>> THEN <<>>
    ELSE ReplicateLoop(Head(concs), 1, n, t, eps, l, nl, Vm, Km, stream, drawn)
         \o save_simulated_absorbance_data(Tail(concs), t, eps, l, nl, n, Vm, Km,
                                           stream, drawn + n * Len(t))

\* pd.DataFrame({'Time': time, 'Absorbance': A_noisy, 'Substrate_Concentration': S})
TraceRows(S, t, A) ==
    List([i \in 1..Len(t) |->
             [Time |-> t[i], Absorbance |-> A[i], Substrate_Concentration |-> S]])

\* The cell that builds df: one trace per concentration, no Replicate column.
RECURSIVE GenerateData(_, _, _, _, _, _, _, _, _)
GenerateData(concs, t, eps, l, nl, Vm, Km, stream, drawn) ==
    IF concs = <<>> THEN <<>>
    ELSE TraceRows(Head(concs), t,
                   simulate_absorbance(Head(concs), t, eps, l, nl, Vm, Km,
                                       stream, drawn))
         \o GenerateData(Tail(concs), t, eps, l, nl, Vm, Km, stream,
                         drawn + Len(t))

(***************************************************************************)
(* The estimator: np.polyfit, np.mean, np.std and the loops around them.   *)
(***************************************************************************)
\* What the LAPACK build does with an input matrix that holds nan.
LapackBuilds == {"raises", "propagates"}

Dot(xs, ys) == RSum(List([i \in 1..Len(xs) |-> RMul(xs[i], ys[i])]))

\* np.mean
mean(xs) == RDiv(RSum(xs), Num(Len(xs)))

Centred(xs, m) == List([i \in 1..Len(xs) |-> RSub(xs[i], m)])

\* The solution of the least-squares system, from sxx = sum((x - mean x)^2),
\* sxy = sum((x - mean x)(y - mean y)), the first x and mean y.
LstsqSlope(sxx, sxy, x1, my, lapack) ==
    IF sxx # Zero THEN Ok(RDiv(sxy, sxx))
    ELSE IF x1 # Zero THEN Ok(RDiv(my, RMul(Num(2), x1)))
    ELSE IF lapack = "raises" THEN Raised("LinAlgError")
    ELSE Ok(NonFinite)

PolyfitCentred(dx, dy, x1, my, lapack) ==
    LstsqSlope(Dot(dx, dx), Dot(dx, dy), x1, my, lapack)

\* np.polyfit(x, y, 1)[1]: the intercept taken for the slope.
PolyfitMeans_intercept(xs, ys, mx, my, lapack) ==
    LET slope == PolyfitCentred(Centred(xs, mx), Centred(ys, my), xs[1], my, lapack)
    IN  IF slope.status = "ok" THEN Ok(RSub(my, RMul(slope.value, mx))) ELSE slope

PolyfitMeans(xs, ys, mx, my, lapack) ==
    PolyfitCentred(Centred(xs, mx), Centred(ys, my), xs[1], my, lapack)

\* np.polyfit(x, y, 1)[0], the slope of the least-squares line.
\*  - no point at all: TypeError ("expected non-empty vector for x");
\*  - at least two distinct x: the least-squares slope
\*    sum((x - mean x)(y - mean y)) / sum((x - mean x)^2);
\*  - all x equal to t # 0 (one point included): the matrix has rank 1,
\*    polyfit warns (RankWarning) and returns the minimum-norm solution of
\*    the column-scaled system, whose slope is mean(y) / (2 t);
\*  - all x equal to 0: the column scale is 0, the scaled matrix holds nan
\*    and lstsq raises LinAlgError or returns nan, by the build;
\*  - a y that is not finite propagates to the slope.
polyfit(xs, ys, lapack) ==
    IF Len(xs) = 0 THEN Raised("TypeError")
    ELSE PolyfitMeans(xs, ys, mean(xs), mean(ys), lapack)

\* np.std (ddof = 0): sqrt(mean(|x - mean(x)|^2)).  The square root of a
\* rational q is kept as [sqrt_of |-> q]; it is 0 iff q is 0.
Sqrt(q) == [sqrt_of |-> q]

MeanSquare(d) == mean(List([i \in 1..Len(d) |-> RMul(d[i], d[i])]))

std(xs) == Sqrt(MeanSquare(Centred(xs, mean(xs))))

\* Series.unique(): the distinct values in order of first appearance.
FirstAppearances(xs) ==
    LET first(i) == \A j \in 1..(i - 1) : xs[j] # xs[i]
    IN  SelectSeq(List([i \in 1..Len(xs) |-> i]), first)

UniqueAt(xs, firsts) == List([k \in 1..Len(firsts) |-> xs[firsts[k]]])

unique(xs) == UniqueAt(xs, FirstAppearances(xs))

\* df[mask], the rows that satisfy the mask in the order of the table, is
\* SelectSeq(df, mask).
Column(rows, name) == List([i \in 1..Len(rows) |-> rows[i][name]])

\* subset['Concentration'] = subset['Absorbance'] / (epsilon * path_length)
Convert(rows, eps, l) ==
    List([i \in 1..Len(rows) |->
             [Time |-> rows[i].Time, Absorbance |-> rows[i].Absorbance,
              Substrate_Concentration |-> rows[i].Substrate_Concentration,
              Replicate |-> rows[i].Replicate,
              Concentration |-> RDiv(rows[i].Absorbance, RMul(eps, l))]])

\* df['Absorbance'] / epsilon: the path length forgotten.
ConvertDf_epsilon_only(rows, eps, l) ==
    List([i \in 1..Len(rows) |->
             [Time |-> rows[i].Time, Absorbance |-> rows[i].Absorbance,
              Substrate_Concentration |-> rows[i].Substrate_Concentration,
              Concentration |-> RDiv(rows[i].Absorbance, eps)]])

\* df['Concentration'] = df['Absorbance'] / (epsilon * path_length)
ConvertDf(rows, eps, l) ==
    List([i \in 1..Len(rows) |->
             [Time |-> rows[i].Time, Absorbance |-> rows[i].Absorbance,
              Substrate_Concentration |-> rows[i].Substrate_Concentration,
              Concentration |-> RDiv(rows[i].Absorbance, RMul(eps, l))]])

\* The first run of consecutive rows of the replicate (a table taken to be
\* grouped already).
ReplicateData_run(subset, replicate) ==
    LET own(i)   == subset[i].Replicate = replicate
        inRun(i) == own(i) /\ \A j \in 1..(i - 1) : own(j) => \A k \in j..i : own(k)
        run      == SelectSeq(List([i \in 1..Len(subset) |-> i]), inRun)
    IN  List([k \in 1..Len(run) |-> subset[run[k]]])

\* replicate_data = subset[subset['Replicate'] == replicate]
ReplicateData(subset, replicate) ==
    LET own(row) == row.Replicate = replicate IN SelectSeq(subset, own)

\* subset = df: the rows of every concentration.
SubsetOf_all(table, S, eps, l) == Convert(table, eps, l)

\* subset = df[df['Substrate_Concentration'] == S], with its Concentration
\* column.
SubsetOf(table, S, eps, l) ==
    LET own(row) == row.Substrate_Concentration = S
    IN  Convert(SelectSeq(table, own), eps, l)

\* np.polyfit(data['Time'], data['Concentration'], 1)[0]
SlopeOfSubset(subset, lapack) ==
    polyfit(Column(subset, "Time"), Column(subset, "Concentration"), lapack)

\* The slope of one replicate of one concentration.
ReplicateSlope(subset, replicate, lapack) ==
    SlopeOfSubset(ReplicateData(subset, replicate), lapack)

\* for replicate in subset['Replicate'].unique(): v0_values.append(slope)
SlopesOf(subset, replicates, lapack) ==
    List([j \in 1..Len(replicates) |-> ReplicateSlope(subset, replicates[j], lapack)])

ReplicateLoop_v0(subset, lapack) ==
    SlopesOf(subset, unique(Column(subset, "Replicate")), lapack)

\* v0_values of concentration S: the slope of every replicate of its subset.
V0Values(table, S, eps, l, lapack) ==
    ReplicateLoop_v0(SubsetOf(table, S, eps, l), lapack)

\* The loop over the concentrations, given the v0_values of each: the first
\* exception of a np.polyfit call ends it, else every concentration appends
\* np.mean(v0_values) and np.std(v0_values).
ConcentrationLoop(concs, v0) ==
    LET bad   == {i \in 1..Len(concs) :
                     \E j \in 1..Len(v0[i]) : v0[i][j].status # "ok"}
    IN  IF bad # {}
        THEN LET i == CHOOSE b \in bad : \A c \in bad : b <= c
                 j == CHOOSE k \in 1..Len(v0[i]) :
                          /\ v0[i][k].status # "ok"
                          /\ \A m \in 1..(k - 1) : v0[i][m].status = "ok"
             IN  Raised(v0[i][j].status)
        ELSE Ok([substrate_concentrations |-> concs,
                 initial_velocities |->
                     List([i \in 1..Len(concs) |-> mean(Column(v0[i], "value"))]),
                 std_velocities |->
                     List([i \in 1..Len(concs) |-> std(Column(v0[i], "value"))])])

CalculateFor(table, concs, eps, l, lapack) ==
    ConcentrationLoop(concs,
        List([i \in 1..Len(concs) |-> V0Values(table, concs[i], eps, l, lapack)]))

\* calculate_initial_velocities(df, epsilon, path_length): the triple
\* (substrate_concentrations, initial_velocities, std_velocities), or the
\* exception np.polyfit raised.
calculate_initial_velocities(table, eps, l, lapack) ==
    CalculateFor(table, unique(Column(table, "Substrate_Concentration")), eps, l, lapack)

\* The simulator notebook's loop: one slope per entry of
\* substrate_concentrations, over all rows of that concentration.
FirstException(v0) ==
    LET bad == {i \in 1..Len(v0) : v0[i].status # "ok"}
    IN  IF bad # {}
        THEN Raised(v0[CHOOSE b \in bad : \A c \in bad : b <= c].status)
        ELSE Ok(Column(v0, "value"))

InitialVelocityLoop(table, concs, lapack) ==
    FirstException(
        List([i \in 1..Len(concs) |->
                 LET own(row) == row.Substrate_Concentration = concs[i]
                 IN  SlopeOfSubset(SelectSeq(table, own), lapack)]))

(***************************************************************************)
(* The fitter: scipy.optimize.curve_fit(michaelis_menten, S, v0, p0).      *)
(***************************************************************************)
\* Where the Levenberg-Marquardt iteration may end when it has to move: a
\* parameter pair, or RuntimeError when it runs out of evaluations.  The
\* iteration itself is not modelled; any of these may be its end.
LmOutcomes ==
    {Ok(p) : p \in KineticsChoices} \cup {Raised("RuntimeError")}

Residuals(xdata, ydata, p) ==
    List([i \in 1..Len(xdata) |->
             RSub(michaelis_menten(xdata[i], p[1], p[2], 0), ydata[i])])

\* curve_fit with the default method "lm":
\*  - check_finite: inf or nan in the data raises ValueError, as does empty data;
\*  - fewer data points than the 2 parameters raises TypeError;
\*  - residuals all 0 at p0: the gradient is 0, MINPACK stops at once and
\*    returns p0 (a singular Jacobian only makes the covariance infinite,
\*    with an OptimizeWarning);
\*  - otherwise the iteration moves and ends at lm.
curve_fit(xdata, ydata, p0, lm) ==
    IF ~AllFinite(xdata) \/ ~AllFinite(ydata) \/ Len(ydata) = 0
    THEN Raised("ValueError")
    ELSE IF Len(ydata) < 2 THEN Raised("TypeError")
    ELSE IF Residuals(xdata, ydata, p0) = List([i \in 1..Len(xdata) |-> Zero])
    THEN Ok(p0)
    ELSE lm

(***************************************************************************)
(* The csv file between the two notebooks.                                 *)
(***************************************************************************)
\* df.to_csv(filename, index=False) then pd.read_csv(filename): the header
\* names the four columns and every value is written with its shortest
\* round-tripping repr, so the loaded table is the saved one.
load_external_data(file) == file

\* Tables that some other program wrote: up to MaxRows rows in any order.
\* <<Substrate_Concentration, Replicate>> of its rows
ExternalGroups == {<<Num(10), 1>>, <<Num(10), 2>>, <<Num(50), 1>>}

ExternalRows ==
    {[Time |-> t, Absorbance |-> a, Substrate_Concentration |-> g[1], Replicate |-> g[2]] :
        t \in {Num(0), Num(1)}, a \in {Num(0), Num(1000)}, g \in ExternalGroups}

ExternalTables == UNION {[1..n -> ExternalRows] : n \in 1..MaxRows}

(***************************************************************************)
(* The cells.                                                              *)
(***************************************************************************)
NoiseStreams == [1..NoisePeriod -> UnitDeviates]

Init ==
    /\ pc = "start"
    /\ epsilon = Zero /\ path_length = Zero /\ V_max = Zero /\ K_m = Zero
    /\ noise_level = Zero /\ n_replicates = 0
    /\ time = <<>> /\ substrate_concentrations = <<>>
    /\ df = <<>> /\ initial_velocities = Unset /\ popt = Unset
    /\ csv = <<>>
    /\ epsilon_ext = Zero /\ path_length_ext = Zero
    /\ df_external = <<>> /\ velocities_ext = Unset /\ popt_ext = Unset
    /\ mm_call = Unset
    /\ sim_calls = <<>>
    /\ values = <<>> /\ heatmap = Unset

\* Simulator notebook, constants cell (values as edited by the user).
CellConstants ==
    /\ pc = "start"
    /\ \E o \in OpticsChoices : epsilon' = o[1] /\ path_length' = o[2]
    /\ \E k \in KineticsChoices : V_max' = k[1] /\ K_m' = k[2]
    /\ noise_level' \in NoiseLevelChoices
    /\ \E num \in 1..MaxPoints : time' = linspace(Num(0), Num(10), num)
    /\ substrate_concentrations' \in ConcentrationChoices
    /\ pc' = "constants"
    /\ UNCHANGED <<n_replicates, df, initial_velocities, popt, csv, extVars, mm_call, sim_calls, plateVars>>

\* Simulator notebook: "Generate data for each substrate concentration".
CellSimulate ==
    /\ pc = "constants"
    /\ \E stream \in NoiseStreams :
          df' = GenerateData(substrate_concentrations, time, epsilon, path_length,
                             noise_level, V_max, K_m, stream, 0)
    /\ pc' = "simulated"
    /\ UNCHANGED <<simVars, initial_velocities, popt, csv, extVars, mm_call, sim_calls, plateVars>>

\* Simulator notebook: df['Concentration'] = df['Absorbance'] / (epsilon * path_length)
CellConvert ==
    /\ pc = "simulated"
    /\ df' = ConvertDf(df, epsilon, path_length)
    /\ pc' = "converted"
    /\ UNCHANGED <<simVars, initial_velocities, popt, csv, extVars, mm_call, sim_calls, plateVars>>

\* Simulator notebook: "Calculate initial velocities".
CellInitialVelocities ==
    /\ pc = "converted"
    /\ \E lapack \in LapackBuilds :
          initial_velocities' = InitialVelocityLoop(df, substrate_concentrations, lapack)
    /\ pc' = "velocities"
    /\ UNCHANGED <<simVars, df, popt, csv, extVars, mm_call, sim_calls, plateVars>>

\* Simulator notebook: curve_fit(..., p0=[V_max, K_m]).
CellFit ==
    /\ pc = "velocities"
    /\ initial_velocities.status = "ok"
    /\ \E lm \in LmOutcomes :
          popt' = curve_fit(substrate_concentrations, initial_velocities.value,
                            <<V_max, K_m>>, lm)
    /\ pc' = "fitted"
    /\ UNCHANGED <<simVars, df, initial_velocities, csv, extVars, mm_call, sim_calls, plateVars>>

\* Simulator notebook, "Saving Simulated Data": the cell assigns every name
\* it reads, then calls save_simulated_absorbance_data, which sees the new
\* values (those of V_max and K_m as the kernel's globals).
CellSave ==
    /\ pc = "start"
    /\ \E o \in OpticsChoices : epsilon' = o[1] /\ path_length' = o[2]
    /\ \E k \in KineticsChoices : V_max' = k[1] /\ K_m' = k[2]
    /\ noise_level' \in NoiseLevelChoices
    /\ n_replicates' \in 1..MaxReplicates
    /\ \E num \in 1..MaxPoints : time' = linspace(Num(0), Num(10), num)
    /\ substrate_concentrations' \in ConcentrationChoices
    /\ \E stream \in NoiseStreams :
          csv' = save_simulated_absorbance_data(
                     substrate_concentrations', time', epsilon', path_length',
                     noise_level', n_replicates', V_max', K_m', stream, 0)
    /\ pc' = "saved"
    /\ UNCHANGED <<df, initial_velocities, popt, extVars, mm_call, sim_calls, plateVars>>

\* csv notebook: constants and df_external = load_external_data(csv_file).
CellLoad ==
    /\ pc = "saved"
    /\ \E o \in OpticsChoices : epsilon_ext' = o[1] /\ path_length_ext' = o[2]
    /\ df_external' = load_external_data(csv)
    /\ pc' = "loaded"
    /\ UNCHANGED <<simVars, df, initial_velocities, popt, csv, velocities_ext,
                   popt_ext, mm_call, sim_calls, plateVars>>

\* csv notebook: calculate_initial_velocities(df_external, epsilon, path_length).
CellCalculate ==
    /\ pc = "loaded"
    /\ \E lapack \in LapackBuilds :
          velocities_ext' = calculate_initial_velocities(
                                df_external, epsilon_ext, path_length_ext, lapack)
    /\ pc' = "calculated"
    /\ UNCHANGED <<simVars, df, initial_velocities, popt, csv, epsilon_ext,
                   path_length_ext, df_external, popt_ext, mm_call, sim_calls, plateVars>>

\* csv notebook: curve_fit(michaelis_menten, ..., p0=[100, 50]).
CellFitExternal ==
    /\ pc = "calculated"
    /\ velocities_ext.status = "ok"
    /\ \E lm \in LmOutcomes :
          popt_ext' = curve_fit(velocities_ext.value.substrate_concentrations,
                                velocities_ext.value.initial_velocities,
                                <<Num(100), Num(50)>>, lm)
    /\ pc' = "fitted_ext"
    /\ UNCHANGED <<simVars, df, initial_velocities, popt, csv, epsilon_ext,
                   path_length_ext, df_external, velocities_ext, mm_call, sim_calls, plateVars>>

Next ==
    \/ CellConstants \/ CellSimulate \/ CellConvert \/ CellInitialVelocities
    \/ CellFit \/ CellSave \/ CellLoad \/ CellCalculate \/ CellFitExternal

Spec == Init /\ [][Next]_vars

(***************************************************************************)
(* The csv notebook on a file that some other program wrote.               *)
(***************************************************************************)
InitExt ==
    /\ pc = "saved"
    /\ csv \in ExternalTables
    /\ epsilon = Zero /\ path_length = Zero /\ V_max = Zero /\ K_m = Zero
    /\ noise_level = Zero /\ n_replicates = 0
    /\ time = <<>> /\ substrate_concentrations = <<>>
    /\ df = <<>> /\ initial_velocities = Unset /\ popt = Unset
    /\ epsilon_ext = Zero /\ path_length_ext = Zero
    /\ df_external = <<>> /\ velocities_ext = Unset /\ popt_ext = Unset
    /\ mm_call = Unset
    /\ sim_calls = <<>>
    /\ values = <<>> /\ heatmap = Unset

NextExt == CellLoad \/ CellCalculate \/ CellFitExternal

SpecExt == InitExt /\ [][NextExt]_vars

\* The same up to the estimator: the file is loaded and
\* calculate_initial_velocities is called on it.
NextEstimator == CellLoad \/ CellCalculate

SpecEstimator == InitExt /\ [][NextEstimator]_vars

(***************************************************************************)
(* michaelis_menten called on its own (a cell evaluating the function).    *)
(***************************************************************************)
\* The floats the literals n and n/2 denote.
ArgChoices == {Fl(Rat(n, d), Precision) : n \in (-MaxArg)..MaxArg, d \in {1, 2}}

CallMichaelisMenten ==
    /\ mm_call = Unset
    /\ \E S \in ArgChoices, Vm \in ArgChoices, Km \in ArgChoices :
          mm_call' = Ok([S |-> S, V_max |-> Vm, K_m |-> Km,
                         v |-> michaelis_menten(S, Vm, Km, Precision)])
    /\ UNCHANGED <<pc, simVars, df, initial_velocities, popt, csv, extVars, sim_calls, plateVars>>

NextMM == CallMichaelisMenten

SpecMM == Init /\ [][NextMM]_vars

(***************************************************************************)
(* simulate_absorbance called on its own, between cells that assign V_max  *)
(* and K_m (the constants cell and the save cell both do).                 *)
(***************************************************************************)
\* V_max = ...; K_m = ...: the kernel's globals assigned again.
CellAssignKinetics ==
    /\ pc = "constants"
    /\ \E k \in KineticsChoices : V_max' = k[1] /\ K_m' = k[2]
    /\ UNCHANGED <<pc, epsilon, path_length, noise_level, n_replicates, time,
                   substrate_concentrations, df, initial_velocities, popt, csv,
                   extVars, mm_call, sim_calls, plateVars>>

\* A_noisy = simulate_absorbance(S, time, epsilon, path_length, noise_level)
\* for an S of substrate_concentrations and a noise level, recorded with its
\* explicit arguments.
CallSimulateAbsorbance ==
    /\ pc = "constants"
    /\ Len(sim_calls) < MaxCalls
    /\ \E i \in 1..Len(substrate_concentrations), nl \in NoiseLevelChoices,
          stream \in NoiseStreams :
          sim_calls' = Append(sim_calls,
              [S |-> substrate_concentrations[i], time |-> time,
               epsilon |-> epsilon, path_length |-> path_length,
               noise_level |-> nl,
               A_noisy |-> simulate_absorbance(substrate_concentrations[i], time,
                                               epsilon, path_length, nl,
                                               V_max, K_m, stream, 0)])
    /\ UNCHANGED <<pc, simVars, df, initial_velocities, popt, csv, extVars, mm_call, plateVars>>

NextSim == CellConstants \/ CellAssignKinetics \/ CallSimulateAbsorbance

SpecSim == Init /\ [][NextSim]_vars

(***************************************************************************)
(* Plate notebook: the colour scale of the heatmap.                        *)
(***************************************************************************)
\* A well without a measurement holds nan.
NaN == NonFinite

\* np.isnan
isnan(x) == ~IsFinite(x)

\* The values a well holds, and abs_df['value'] of a plate of up to MaxWells
\* wells.
WellValues == {NaN, Num(-1), Num(0), Rat(1, 2), Num(2)}

PlateValues == UNION {[1..n -> WellValues] : n \in 0..MaxWells}

\* x < y on finite values.
RLt(x, y) == RSub(x, y)[1] < 0

\* values[~np.isnan(values)]
clean_values(vals) == LET kept(x) == ~isnan(x) IN SelectSeq(vals, kept)

\* The values an array holds.
Elements(xs) == {xs[i] : i \in 1..Len(xs)}

\* np.min, np.max of a non-empty array of finite values.
amin(xs) == CHOOSE x \in Elements(xs) : \A y \in Elements(xs) : RLe(x, y)

amax(xs) == CHOOSE x \in Elements(xs) : \A y \in Elements(xs) : RLe(y, x)

\* The array in ascending order: its k-th entry is the x with fewer than k
\* entries below it and at least k entries not above it.
sort(xs) ==
    List([k \in 1..Len(xs) |->
             CHOOSE x \in Elements(xs) :
                 /\ Cardinality({i \in 1..Len(xs) : RLt(xs[i], x)}) < k
                 /\ Cardinality({i \in 1..Len(xs) : RLe(xs[i], x)}) >= k])

\* numpy's _lerp(a, b, t): a + (b - a) * t, and b - (b - a) * (1 - t) from
\* t = 0.5 on.
lerp(a, b, t) ==
    IF RLe(Rat(1, 2), t) THEN RSub(b, RMul(RSub(b, a), RSub(Num(1), t)))
    ELSE RAdd(a, RMul(RSub(b, a), t))

\* The largest integer not above x >= 0.
floor(x) == x[1] \div x[2]

\* The interpolation between the entries of the sorted array next to the
\* virtual index q / 100 * (n - 1), counted from 0.
PercentileOfSorted(arr, virtual, previous) ==
    lerp(arr[previous + 1],
         arr[(IF previous + 1 < Len(arr) THEN previous + 1 ELSE previous) + 1],
         RSub(virtual, Num(previous)))

PercentileAt(arr, virtual) == PercentileOfSorted(arr, virtual, floor(virtual))

\* np.percentile(a, q) of a non-empty array, method "linear".
percentile(a, q) == PercentileAt(sort(a), RMul(Rat(q, 100), Num(Len(a) - 1)))

\* Method 1: vmin = np.min(clean_values); vmax = np.max(clean_values)
ScaleMinMax(clean) == [vmin |-> amin(clean), vmax |-> amax(clean)]

\* Method 2: vmin = np.percentile(clean_values, 5)
\*           vmax = np.percentile(clean_values, 95)
ScalePercentile(clean) ==
    [vmin |-> percentile(clean, 5), vmax |-> percentile(clean, 95)]

\* The assignments of method 2 left out.
ScaleOf_minmax(clean) ==
    IF Len(clean) > 0 THEN ScaleMinMax(clean)
    ELSE [vmin |-> Num(0), vmax |-> Num(1)]

\* if len(clean_values) > 0: method 1, then method 2 assigns vmin and vmax
\* again; else: vmin, vmax = 0, 1
ScaleOf(clean) ==
    IF Len(clean) > 0 THEN ScalePercentile(clean)
    ELSE [vmin |-> Num(0), vmax |-> Num(1)]

\* abs_df = skanit7_dr.dataframe
CellReadPlate ==
    /\ pc = "start"
    /\ values' \in PlateValues
    /\ pc' = "plate_read"
    /\ UNCHANGED <<simVars, df, initial_velocities, popt, csv, extVars, mm_call,
                   sim_calls, heatmap>>

\* The cell that computes vmin and vmax and calls
\* sns.heatmap(heatmap_data, ..., vmin=vmin, vmax=vmax, ...).
CellAutoScale ==
    /\ pc = "plate_read"
    /\ heatmap' = Ok(ScaleOf(clean_values(values)))
    /\ pc' = "scaled"
    /\ UNCHANGED <<simVars, df, initial_velocities, popt, csv, extVars, mm_call,
                   sim_calls, values>>

NextPlate == CellReadPlate \/ CellAutoScale

SpecPlate == Init /\ [][NextPlate]_vars

(***************************************************************************)
(* Properties of michaelis_menten (SpecMM).                                *)
(***************************************************************************)
IsPositive(x) == IsFinite(x) /\ x[1] > 0
IsNonNegative(x) == IsFinite(x) /\ x[1] >= 0

\* C6: for every V_max and every K_m > 0, michaelis_menten(S, V_max, K_m)
\* called with S = K_m returns V_max / 2.
C6_HalfSaturation ==
    (/\ mm_call.status = "ok"
     /\ IsPositive(mm_call.value.K_m)
     /\ mm_call.value.S = mm_call.value.K_m)
    => mm_call.value.v = RDiv(mm_call.value.V_max, Num(2))

\* C7: for V_max > 0 and K_m > 0 the value returned at S >= 0 is at least
\* the value at every S1 with 0 <= S1 <= S, is at most V_max, and is 0 at
\* S = 0.
C7_Monotone ==
    (/\ mm_call.status = "ok"
     /\ IsPositive(mm_call.value.V_max)
     /\ IsPositive(mm_call.value.K_m)
     /\ IsNonNegative(mm_call.value.S))
    => /\ IsFinite(mm_call.value.v)
       /\ \A S1 \in ArgChoices :
             (IsNonNegative(S1) /\ RLe(S1, mm_call.value.S))
             => RLe(michaelis_menten(S1, mm_call.value.V_max, mm_call.value.K_m,
                                     Precision),
                    mm_call.value.v)
       /\ RLe(mm_call.value.v, mm_call.value.V_max)
       /\ (mm_call.value.S = Zero => mm_call.value.v = Zero)

(***************************************************************************)
(* Properties of the simulator notebook's pipeline (Spec).                 *)
(***************************************************************************)
SourceConcentrations == <<Num(10), Num(20), Num(50), Num(100), Num(200)>>

\* 100 * S / (50 + S) for an integer S.
AnalyticVelocity(S) == Rat(100 * S[1], 50 + S[1])

\* The simulator notebook ran on noiseless data with V_max = 100, K_m = 50,
\* non-zero epsilon and path_length and at least 2 time points from 0.
NoiselessRun ==
    /\ noise_level = Zero
    /\ V_max = Num(100) /\ K_m = Num(50)
    /\ epsilon # Zero /\ path_length # Zero
    /\ Len(time) >= 2 /\ time[1] = Zero

\* C1: after the generator, the conversion and the slope loop on noiseless
\* data (V_max = 100, K_m = 50, non-zero epsilon and path_length, at least 2
\* time points), the v0 of every concentration S is 100 * S / (50 + S).
C1_NoiselessVelocity ==
    (pc \in {"velocities", "fitted"} /\ NoiselessRun)
    => /\ initial_velocities.status = "ok"
       /\ Len(initial_velocities.value) = Len(substrate_concentrations)
       /\ \A i \in 1..Len(substrate_concentrations) :
             initial_velocities.value[i] = AnalyticVelocity(substrate_concentrations[i])

\* The source's five concentrations with epsilon * path_length # 1: v0 is
\* 50/3, 200/7, 50, 200/3, 80.
C1_Witness ==
    /\ pc = "velocities" /\ NoiselessRun
    /\ path_length = Num(2)
    /\ Len(time) = MaxPoints
    /\ substrate_concentrations = SourceConcentrations
    /\ initial_velocities = Ok(<<Rat(50, 3), Rat(200, 7), Num(50), Rat(200, 3), Num(80)>>)

\* C2: on noiseless data at V_max = 100, K_m = 50 for S in {10, 20, 50, 100,
\* 200}, the parameters (100, 50) leave no residual on the estimated (S, v0)
\* pairs and curve_fit, started at (100, 50), returns them.
C2_RoundTrip ==
    (pc = "fitted" /\ NoiselessRun /\ substrate_concentrations = SourceConcentrations)
    => /\ initial_velocities.status = "ok"
       /\ \A i \in 1..Len(substrate_concentrations) :
             RSub(AnalyticVelocity(substrate_concentrations[i]),
                  initial_velocities.value[i]) = Zero
       /\ popt = Ok(<<Num(100), Num(50)>>)

C2_Witness ==
    /\ pc = "fitted" /\ NoiselessRun
    /\ substrate_concentrations = SourceConcentrations
    /\ epsilon = Num(1000) /\ path_length = Num(1)
    /\ popt = Ok(<<Num(100), Num(50)>>)

(***************************************************************************)
(* The error taxonomy of the specification.                                *)
(***************************************************************************)
\* The (concentration, replicate) groups of a table, and the rows of one.
GroupsOf(table) ==
    {<<table[q].Substrate_Concentration, table[q].Replicate>> : q \in 1..Len(table)}

RowsOfGroup(table, g) ==
    {q \in 1..Len(table) :
        table[q].Substrate_Concentration = g[1] /\ table[q].Replicate = g[2]}

\* C3: calculate_initial_velocities (and the simulator notebook's slope loop)
\* fails with ConfigurationError, reporting no v0, whenever epsilon or
\* path_length is zero.
C3_ConfigurationError ==
    /\ (/\ pc \in {"calculated", "fitted_ext"}
        /\ (epsilon_ext = Zero \/ path_length_ext = Zero))
       => velocities_ext = Raised("ConfigurationError")
    /\ (/\ pc \in {"velocities", "fitted"}
        /\ (epsilon = Zero \/ path_length = Zero))
       => initial_velocities = Raised("ConfigurationError")

\* C4: calculate_initial_velocities raises InsufficientDataError whenever a
\* replicate of the table has fewer than 2 time points.
C4_InsufficientData ==
    (/\ pc \in {"calculated", "fitted_ext"}
     /\ \E g \in GroupsOf(df_external) : Cardinality(RowsOfGroup(df_external, g)) < 2)
    => velocities_ext = Raised("InsufficientDataError")

DistinctValues(xs) == {xs[i] : i \in 1..Len(xs)}

\* C5: curve_fit raises UnderdeterminedFitError, and yields no (V_max, K_m),
\* whenever its (S, v0) pairs hold fewer than 2 distinct concentrations.
C5_UnderdeterminedFit ==
    /\ (/\ pc = "fitted_ext"
        /\ Cardinality(DistinctValues(velocities_ext.value.substrate_concentrations)) < 2)
       => popt_ext = Raised("UnderdeterminedFitError")
    /\ (/\ pc = "fitted"
        /\ Cardinality(DistinctValues(substrate_concentrations)) < 2)
       => popt = Raised("UnderdeterminedFitError")

(***************************************************************************)
(* Properties of the saved table and of calculate_initial_velocities.      *)
(***************************************************************************)
AfterSave == pc \in {"saved", "loaded", "calculated", "fitted_ext"}
AfterCalculate == pc \in {"calculated", "fitted_ext"}

NoDuplicates(xs) == \A i, j \in 1..Len(xs) : xs[i] = xs[j] => i = j

\* C8: the table save_simulated_absorbance_data writes holds, for the i-th
\* concentration and every replicate id r in 1..n_replicates, one row per
\* time point in the order of the time sequence, and nothing else:
\* |concentrations| * n_replicates * |time| rows, replicate ids >= 1, and for
\* distinct concentrations exactly one row per (S, r, time point).
C8_RowsPerReplicate ==
    AfterSave =>
        LET nT == Len(time)
            n  == n_replicates
        IN  /\ Len(csv) = Len(substrate_concentrations) * n * nT
            /\ \A i \in 1..Len(substrate_concentrations), r \in 1..n, k \in 1..nT :
                  LET row == csv[((i - 1) * n + (r - 1)) * nT + k]
                  IN  /\ row.Substrate_Concentration = substrate_concentrations[i]
                      /\ row.Replicate = r
                      /\ row.Time = time[k]
            /\ \A q \in 1..Len(csv) : csv[q].Replicate >= 1
            /\ NoDuplicates(substrate_concentrations) =>
                  \A i \in 1..Len(substrate_concentrations), r \in 1..n, k \in 1..nT :
                      Cardinality({q \in 1..Len(csv) :
                          /\ csv[q].Substrate_Concentration = substrate_concentrations[i]
                          /\ csv[q].Replicate = r
                          /\ csv[q].Time = time[k]}) = 1

\* The source's five concentrations, the most replicates and time points.
C8_Witness ==
    /\ pc = "saved"
    /\ substrate_concentrations = SourceConcentrations
    /\ n_replicates = MaxReplicates /\ n_replicates >= 2
    /\ Len(time) = MaxPoints
    /\ Len(csv) = 5 * MaxReplicates * MaxPoints
    /\ csv[Len(csv)].Replicate = MaxReplicates

\* The rows of group g = <<concentration, replicate>>, in table order, and
\* the least-squares slope of their absorbance / (epsilon * path_length)
\* against their time.
OwnRows(table, g) ==
    LET own(row) == row.Substrate_Concentration = g[1] /\ row.Replicate = g[2]
    IN  SelectSeq(table, own)

OwnSlope(table, g, eps, l) ==
    LET rows == OwnRows(table, g)
    IN  polyfit(List([q \in 1..Len(rows) |-> rows[q].Time]),
                List([q \in 1..Len(rows) |-> RDiv(rows[q].Absorbance, RMul(eps, l))]),
                "propagates")

\* The replicate ids of concentration S in order of first appearance.
ReplicatesOf(table, S) ==
    LET own(row) == row.Substrate_Concentration = S
    IN  unique(Column(SelectSeq(table, own), "Replicate"))

OwnSlopes(table, S, eps, l) ==
    LET rs == ReplicatesOf(table, S)
    IN  List([j \in 1..Len(rs) |-> OwnSlope(table, <<S, rs[j]>>, eps, l).value])

Perturbed(table, q, t, a) ==
    [table EXCEPT ![q] = [@ EXCEPT !.Time = t, !.Absorbance = a]]

\* A time and an absorbance that no row of an external table holds.
PerturbedTimes == {Num(2)}
PerturbedAbsorbances == {Num(500)}

\* The slope of group g is own whatever replaces a row of another group.
UnchangedByOthers(table, g, own, eps, l) ==
    \A q \in 1..Len(table), t \in PerturbedTimes, a \in PerturbedAbsorbances :
        q \notin RowsOfGroup(table, g) =>
            ReplicateSlope(SubsetOf(Perturbed(table, q, t, a), g[1], eps, l),
                           g[2], "propagates") = own

\* C9: the mean calculate_initial_velocities reports for a concentration is
\* the mean of the slopes of that concentration's replicates, each taken
\* over exactly the rows whose Substrate_Concentration and Replicate both
\* match; a new time and absorbance in a row of another group leaves the
\* slope of a group unchanged.
C9_OwnRowsOnly ==
    pc = "calculated" =>
        /\ velocities_ext.status = "ok" =>
              \A i \in 1..Len(velocities_ext.value.substrate_concentrations) :
                  velocities_ext.value.initial_velocities[i] =
                      mean(OwnSlopes(df_external,
                                     velocities_ext.value.substrate_concentrations[i],
                                     epsilon_ext, path_length_ext))
        /\ \A g \in GroupsOf(df_external) :
              UnchangedByOthers(df_external, g,
                                OwnSlope(df_external, g, epsilon_ext, path_length_ext),
                                epsilon_ext, path_length_ext)

\* Two concentrations with different finite means, one from a replicate of
\* two time points that shares its replicate id with the other concentration.
C9_Witness ==
    /\ pc = "calculated"
    /\ velocities_ext.status = "ok"
    /\ Len(velocities_ext.value.substrate_concentrations) = 2
    /\ AllFinite(velocities_ext.value.initial_velocities)
    /\ velocities_ext.value.initial_velocities[1] # velocities_ext.value.initial_velocities[2]
    /\ velocities_ext.value.initial_velocities[1] # Zero
    /\ \A q \in 1..Len(df_external) : df_external[q].Replicate = 1
    /\ \E q1, q2 \in 1..Len(df_external) :
          /\ df_external[q1].Substrate_Concentration = df_external[q2].Substrate_Concentration
          /\ df_external[q1].Time # df_external[q2].Time

\* For every concentration reported: the standard deviation is 0 and the
\* mean equals the v0 of each of its replicates.
C10_property ==
    \A i \in 1..Len(velocities_ext.value.substrate_concentrations) :
        /\ velocities_ext.value.std_velocities[i] = Sqrt(Zero)
        /\ LET v0 == OwnSlopes(df_external,
                               velocities_ext.value.substrate_concentrations[i],
                               epsilon_ext, path_length_ext)
           IN  \A j \in 1..Len(v0) : v0[j] = velocities_ext.value.initial_velocities[i]

\* C10: for replicates generated with noise_level = 0, the standard deviation
\* calculate_initial_velocities reports for every concentration is 0 and the
\* reported mean equals the v0 of each of its replicates.
C10_NoiselessStd ==
    (AfterCalculate /\ noise_level = Zero /\ velocities_ext.status = "ok")
    => C10_property

\* The same restricted to an estimator given non-zero epsilon and path_length
\* and replicates of at least 2 time points.
C10_NoiselessStd_ValidInputs ==
    (/\ AfterCalculate /\ noise_level = Zero /\ velocities_ext.status = "ok"
     /\ epsilon_ext # Zero /\ path_length_ext # Zero /\ Len(time) >= 2)
    => C10_property

\* Every replicate of the table has two rows at different times.
TwoTimesEach(table) ==
    \A g \in GroupsOf(table) :
        \E q1, q2 \in RowsOfGroup(table, g) : table[q1].Time # table[q2].Time

\* The three returned sequences are aligned with the distinct
\* Substrate_Concentration values of the table, and the std of a concentration
\* with a single replicate is 0.
C11_property ==
    LET out   == velocities_ext.value
        concs == unique(Column(df_external, "Substrate_Concentration"))
    IN  /\ out.substrate_concentrations = concs
        /\ NoDuplicates(concs)
        /\ DistinctValues(concs) = {g[1] : g \in GroupsOf(df_external)}
        /\ Len(out.initial_velocities) = Len(concs)
        /\ Len(out.std_velocities) = Len(concs)
        /\ \A i \in 1..Len(concs) :
              Len(ReplicatesOf(df_external, concs[i])) = 1
              => out.std_velocities[i] = Sqrt(Zero)

\* C11: the three sequences calculate_initial_velocities returns have the
\* same length, one entry per distinct Substrate_Concentration of the table
\* in the same position, and the std entry of a concentration that has a
\* single replicate is 0.
C11_StdReported ==
    (AfterCalculate /\ velocities_ext.status = "ok") => C11_property

\* The same restricted to an estimator given non-zero epsilon and path_length
\* and replicates of at least 2 different time points.
C11_StdReported_ValidInputs ==
    (/\ AfterCalculate /\ velocities_ext.status = "ok"
     /\ epsilon_ext # Zero /\ path_length_ext # Zero
     /\ TwoTimesEach(df_external))
    => C11_property

\* A concentration whose single replicate has two time points and a non-zero
\* slope, on valid inputs.
C11_ValidInputs_Reached ==
    /\ pc = "calculated" /\ velocities_ext.status = "ok"
    /\ epsilon_ext # Zero /\ path_length_ext # Zero
    /\ TwoTimesEach(df_external)
    /\ velocities_ext.value.std_velocities = <<Sqrt(Zero)>>
    /\ velocities_ext.value.initial_velocities # <<Zero>>

\* The table with its first two rows exchanged, and the table with its first
\* row moved to the end.  Every permutation of the rows of a table is a
\* product of these two.
Exchanged(table) == [table EXCEPT ![1] = table[2], ![2] = table[1]]

Rotated(table) == Tail(table) \o <<Head(table)>>

Reorderings(table) ==
    IF Len(table) < 2 THEN {} ELSE {Exchanged(table), Rotated(table)}

\* The LAPACK build an outcome shows: an exception is raised only by the
\* build that raises, and a returned nan only by the one that propagates.
BuildOf(out) == IF out.status = "ok" THEN "propagates" ELSE "raises"

\* <<mean v0, std v0>> an outcome reports for concentration S.
ReportedFor(out, S) ==
    LET i == CHOOSE k \in 1..Len(out.substrate_concentrations) :
                 out.substrate_concentrations[k] = S
    IN  <<out.initial_velocities[i], out.std_velocities[i]>>

\* Two outcomes report the same triple for every concentration, or are the
\* same exception.
SameTriples(a, b) ==
    /\ a.status = b.status
    /\ a.status = "ok" =>
          /\ DistinctValues(a.value.substrate_concentrations)
                 = DistinctValues(b.value.substrate_concentrations)
          /\ Len(a.value.substrate_concentrations) = Len(b.value.substrate_concentrations)
          /\ \A S \in DistinctValues(a.value.substrate_concentrations) :
                 ReportedFor(a.value, S) = ReportedFor(b.value, S)

\* C12: calculate_initial_velocities returns for every concentration the
\* same (concentration, mean v0, std v0) for a table, for the table with its
\* first two rows exchanged and for the table with its first row moved to the
\* end (on the same LAPACK build); as this holds of every table, it holds
\* between a table and each permutation of its rows.
C12_AnyRowOrder ==
    pc = "calculated" =>
        \A reordered \in Reorderings(df_external) :
            SameTriples(velocities_ext,
                        calculate_initial_velocities(
                            reordered, epsilon_ext, path_length_ext,
                            BuildOf(velocities_ext)))

\* Rows of two concentrations interleaved, the replicate of the first with
\* its later time point first, reported with two different finite means.
C12_Witness ==
    /\ pc = "calculated" /\ velocities_ext.status = "ok"
    /\ Len(df_external) = 3
    /\ df_external[1].Substrate_Concentration = df_external[3].Substrate_Concentration
    /\ df_external[1].Substrate_Concentration # df_external[2].Substrate_Concentration
    /\ df_external[1].Replicate = df_external[3].Replicate
    /\ df_external[1].Time = Num(1) /\ df_external[3].Time = Num(0)
    /\ AllFinite(velocities_ext.value.initial_velocities)
    /\ velocities_ext.value.initial_velocities[1] # Zero
    /\ velocities_ext.value.initial_velocities[1] # velocities_ext.value.initial_velocities[2]

(***************************************************************************)
(* Properties of simulate_absorbance called on its own (SpecSim).          *)
(***************************************************************************)
\* The explicit arguments of a recorded call.
ExplicitArguments(call) ==
    <<call.S, call.time, call.epsilon, call.path_length, call.noise_level>>

\* C13: two calls of simulate_absorbance with the same (S, time, epsilon,
\* path_length) and noise_level = 0 return the same absorbance trace,
\* whatever V_max and K_m were assigned between them.
C13_ExplicitArgumentsOnly ==
    \A i, j \in 1..Len(sim_calls) :
        (/\ ExplicitArguments(sim_calls[i]) = ExplicitArguments(sim_calls[j])
         /\ sim_calls[i].noise_level = Zero)
        => sim_calls[i].A_noisy = sim_calls[j].A_noisy

(***************************************************************************)
(* Properties of the plate notebook's colour scale (SpecPlate).            *)
(***************************************************************************)
\* The indices of the wells that hold a measurement.
Measured == {i \in 1..Len(values) : values[i] # NaN}

\* The k-th smallest measurement: some measurement with fewer than k
\* measurements below it and at least k not above it.
Ranked(k) ==
    CHOOSE x \in {values[i] : i \in Measured} :
        /\ Cardinality({i \in Measured : RLt(values[i], x)}) < k
        /\ Cardinality({i \in Measured : RLe(values[i], x)}) >= k

\* The q-th percentile of the measurements as a weighted mean of the two
\* measurements whose ranks enclose 1 + q / 100 * (n - 1).
PercentileOfMeasured(q) ==
    LET n == Cardinality(Measured)
        h == Rat(q * (n - 1), 100)
        k == h[1] \div h[2]
        w == RSub(h, Num(k))
    IN  RAdd(RMul(RSub(Num(1), w), Ranked(k + 1)),
             RMul(w, Ranked(IF k + 2 <= n THEN k + 2 ELSE n)))

\* C14: the (vmin, vmax) given to the heatmap is, when at least one value is
\* not NaN, the 5th and the 95th percentile of the values that are not NaN,
\* so that min <= vmin <= vmax <= max of these values; it is (0, 1) when
\* every value is NaN or there is none.
C14_ColorScale ==
    pc = "scaled" =>
        /\ heatmap.status = "ok"
        /\ IF Measured = {}
           THEN heatmap.value = [vmin |-> Num(0), vmax |-> Num(1)]
           ELSE /\ heatmap.value.vmin = PercentileOfMeasured(5)
                /\ heatmap.value.vmax = PercentileOfMeasured(95)
                /\ \E i \in Measured : RLe(values[i], heatmap.value.vmin)
                /\ \E i \in Measured : RLe(heatmap.value.vmax, values[i])
                /\ RLe(heatmap.value.vmin, heatmap.value.vmax)

\* A plate with a missing well and two different measurements, scaled to a
\* range strictly inside (min, max).
C14_Witness ==
    /\ pc = "scaled"
    /\ Len(values) = MaxWells
    /\ \E i \in 1..Len(values) : values[i] = NaN
    /\ Cardinality({values[i] : i \in Measured}) >= 2
    /\ \E i, j \in Measured :
          /\ RLt(values[i], heatmap.value.vmin)
          /\ RLt(heatmap.value.vmin, heatmap.value.vmax)
          /\ RLt(heatmap.value.vmax, values[j])

=============================================================================
